---- MODULE Spec2Model ----
(***************************************************************************)
(* Guardrail checks of src/src/verification.py.                            *)
(*                                                                         *)
(* The module's only state is the flag Z3_AVAILABLE, set by the import     *)
(* probe when the module is loaded.  Every check is a function call: the   *)
(* model records the function called (fn), its arguments (args), the       *)
(* branch it took (branch: "solver", "direct", or "none" for the functions *)
(* without strategies) and what the call produced (ret): a returned value  *)
(* or a raised exception.  numpy2 tells whether the numpy behind pandas    *)
(* in this process is numpy 2, which decides how its integers print.       *)
(* prev is a caller's note of one earlier call and its result, kept to     *)
(* compare a repeat of that call against; threads holds the calls that     *)
(* several threads have in progress.                                       *)
(***************************************************************************)
EXTENDS Integers, Sequences, FiniteSets, TLC

VARIABLES Z3_AVAILABLE, numpy2, fn, args, ret, branch, prev, threads

vars == <<Z3_AVAILABLE, numpy2, fn, args, ret, branch, prev, threads>>

(***************************************************************************)
(* Bounds of the input domains.                                            *)
(***************************************************************************)
MaxIdx == 2
\* Significant bits of the modelled binary floating-point format (round to
\* nearest, ties to even).
Prec == 4
\* Exponent of the largest finite float, (2^Prec - 1) * 2^FloatExpSpan; only
\* the conversion of an int can pass it, the operations on the float
\* arguments used stay far below.
FloatExpSpan == 3
\* Range searched for the exponent of a rounded value.
MaxExp == 12
\* Largest frame count passed to check_sampling_consistency.
MaxFrames == 3
\* Longest list of identifiers or labels passed in.
MaxLen == 2
\* Most splits in a labels_by_split dict.
MaxSplits == 2
\* Largest min_count passed to min_class_presence.
MaxMinCount == 3

IdxVals == (0 - 1) .. MaxIdx
NVals == (0 - 1) .. (MaxIdx + 1)

(***************************************************************************)
(* What a call produces.                                                   *)
(***************************************************************************)
Returned(v) == [raised |-> FALSE, value |-> v]
Raise(err, m) == [raised |-> TRUE, error |-> err, msg |-> m]
Raised(m) == Raise("AssertionError", m)

\* Python's str() of an int, as an f-string field renders it.
IntStr(i) == ToString(i)

(***************************************************************************)
(* The strategy flag.                                                      *)
(***************************************************************************)
\* Variant of FlagAfterCall: the call tries the import again, and it succeeds.
FlagAfterCallRetry(z3) == TRUE

\* Variant of FlagAfterCall: the call drops the solver once it has used it.
FlagAfterCallCleared(z3) == FALSE

\* Lines 26-80: no function assigns Z3_AVAILABLE (none declares it global),
\* so a call leaves the flag as the import probe set it.
FlagAfterCall(z3) == z3

\* Variant of StrategyOf: the test of the flag inverted.
StrategyOfInverted(z3) == IF z3 THEN "direct" ELSE "solver"

\* Lines 28 and 42: if not Z3_AVAILABLE: the pure-Python branch, else the solver.
StrategyOf(z3) == IF ~z3 THEN "direct" ELSE "solver"

(***************************************************************************)
(* check_event_triplet                                                     *)
(***************************************************************************)
\* Variant of TripletDirect: offset compared with n_frames instead of n_frames - 1.
TripletDirectOffByOne(onset, apex, offset, n_frames) ==
    /\ 0 <= onset
    /\ onset < apex
    /\ apex < offset
    /\ offset <= n_frames

\* Line 29: the chained comparison of the pure-Python branch.
TripletDirect(onset, apex, offset, n_frames) ==
    /\ 0 <= onset
    /\ onset < apex
    /\ apex < offset
    /\ offset <= n_frames - 1

TripletDirectMsg(onset, apex, offset, n_frames) ==
    "Violation: (onset=" \o IntStr(onset) \o ", apex=" \o IntStr(apex)
        \o ", offset=" \o IntStr(offset) \o ", n=" \o IntStr(n_frames) \o ")"

\* Variant of TripletConstraint: o <= a instead of o < a.
TripletConstraintBroken(o, a, f, N) ==
    /\ 0 <= o
    /\ o <= a
    /\ a < f
    /\ f <= N - 1

\* Line 34: s.add(And(0 <= o, o < a, a < f, f <= N - 1))
TripletConstraint(o, a, f, N) ==
    /\ 0 <= o
    /\ o < a
    /\ a < f
    /\ f <= N - 1

\* The solver's variables range over the integers; the equalities asserted
\* first pin each one to an argument, so the arguments' range is enough.
SolverDom == ((0 - 1) .. (MaxIdx + 1))

\* s.add(o == onset, ...); s.add(And(...)); s.check() == sat
TripletSat(onset, apex, offset, n_frames) ==
    \E o \in SolverDom, a \in SolverDom, f \in SolverDom, N \in SolverDom :
        /\ o = onset
        /\ a = apex
        /\ f = offset
        /\ N = n_frames
        /\ TripletConstraint(o, a, f, N)

TripletSolverMsg(onset, apex, offset, n_frames) ==
    "Constraint violation for (onset=" \o IntStr(onset) \o ", apex=" \o IntStr(apex)
        \o ", offset=" \o IntStr(offset) \o ", n=" \o IntStr(n_frames) \o ")"

\* The function under the strategy flag z3.
check_event_triplet(z3, onset, apex, offset, n_frames) ==
    IF StrategyOf(z3) = "direct"
    THEN LET ok == TripletDirect(onset, apex, offset, n_frames)
         IN  <<ok, IF ok THEN "OK" ELSE TripletDirectMsg(onset, apex, offset, n_frames)>>
    ELSE IF TripletSat(onset, apex, offset, n_frames)
         THEN <<TRUE, "OK">>
         ELSE <<FALSE, TripletSolverMsg(onset, apex, offset, n_frames)>>

CheckEventTriplet ==
    /\ fn = "idle"
    /\ \E onset \in IdxVals, apex \in IdxVals, offset \in IdxVals, n_frames \in NVals :
        /\ fn' = "check_event_triplet"
        /\ args' = [onset |-> onset, apex |-> apex, offset |-> offset, n_frames |-> n_frames]
        /\ ret' = Returned(check_event_triplet(Z3_AVAILABLE, onset, apex, offset, n_frames))
    /\ branch' = StrategyOf(Z3_AVAILABLE)
    /\ Z3_AVAILABLE' = FlagAfterCall(Z3_AVAILABLE)
    /\ UNCHANGED <<numpy2, prev, threads>>

(***************************************************************************)
(* check_window_bounds                                                     *)
(***************************************************************************)
\* The pure-Python branch: (0 <= start) and (length >= 0) and (start + length <= n_frames)
WindowDirect(start, length, n_frames) ==
    /\ 0 <= start
    /\ length >= 0
    /\ start + length <= n_frames

\* Variant of WindowConstraint: 0 <= L left out.
WindowConstraintBroken(s, L, N) ==
    /\ 0 <= s
    /\ s + L <= N

\* Line 48: solver.add(And(0 <= s, 0 <= L, s + L <= N))
WindowConstraint(s, L, N) ==
    /\ 0 <= s
    /\ 0 <= L
    /\ s + L <= N

\* solver.add(s == start, ...); solver.add(And(...)); solver.check() == sat
WindowSat(start, length, n_frames) ==
    \E s \in SolverDom, L \in SolverDom, N \in SolverDom :
        /\ s = start
        /\ L = length
        /\ N = n_frames
        /\ WindowConstraint(s, L, N)

\* Both branches format the same text.
WindowMsg(start, length, n_frames) ==
    "Window out of bounds: start=" \o IntStr(start) \o ", length=" \o IntStr(length)
        \o ", n=" \o IntStr(n_frames)

\* Variant of check_window_bounds: the pure-Python branch returns "OK" whatever ok is.
check_window_bounds_NoMsg(z3, start, length, n_frames) ==
    IF StrategyOf(z3) = "direct"
    THEN <<WindowDirect(start, length, n_frames), "OK">>
    ELSE IF WindowSat(start, length, n_frames)
         THEN <<TRUE, "OK">>
         ELSE <<FALSE, WindowMsg(start, length, n_frames)>>

check_window_bounds(z3, start, length, n_frames) ==
    IF StrategyOf(z3) = "direct"
    THEN LET ok == WindowDirect(start, length, n_frames)
         IN  <<ok, IF ok THEN "OK" ELSE WindowMsg(start, length, n_frames)>>
    ELSE IF WindowSat(start, length, n_frames)
         THEN <<TRUE, "OK">>
         ELSE <<FALSE, WindowMsg(start, length, n_frames)>>

CheckWindowBounds ==
    /\ fn = "idle"
    /\ \E start \in IdxVals, length \in IdxVals, n_frames \in NVals :
        /\ fn' = "check_window_bounds"
        /\ args' = [start |-> start, length |-> length, n_frames |-> n_frames]
        /\ ret' = Returned(check_window_bounds(Z3_AVAILABLE, start, length, n_frames))
    /\ branch' = StrategyOf(Z3_AVAILABLE)
    /\ Z3_AVAILABLE' = FlagAfterCall(Z3_AVAILABLE)
    /\ UNCHANGED <<numpy2, prev, threads>>

(***************************************************************************)
(* Floating-point values: exact fractions <<n, d>> in lowest terms, d > 0. *)
(* Every arithmetic operation rounds its exact result to Prec significant  *)
(* bits, as Python's float operations round to 53.                         *)
(***************************************************************************)
Abs(i) == IF i < 0 THEN 0 - i ELSE i

RECURSIVE GCD(_, _)
GCD(a, b) == IF b = 0 THEN a ELSE GCD(b, a % b)

\* The fraction n/d (d # 0) in lowest terms with a positive denominator.
Frac(n, d) ==
    LET g == GCD(Abs(n), Abs(d))
        sgn == IF d < 0 THEN 0 - 1 ELSE 1
    IN  <<(sgn * n) \div g, Abs(d) \div g>>

\* Round half to even of a/d (a >= 0, d > 0) to an integer.
RoundHalfEven(a, d) ==
    LET q == a \div d
        r == a % d
    IN  IF 2 * r < d THEN q
        ELSE IF 2 * r > d THEN q + 1
        ELSE IF q % 2 = 0 THEN q ELSE q + 1

\* The float nearest to the exact value n/d (d > 0).
Round(n, d) ==
    IF n = 0 THEN <<0, 1>>
    ELSE LET a == Abs(n)
             num(e) == IF e >= 0 THEN a ELSE a * 2^(0 - e)
             den(e) == IF e >= 0 THEN d * 2^e ELSE d
             e == CHOOSE x \in (0 - MaxExp) .. MaxExp :
                     /\ 2^(Prec - 1) * den(x) <= num(x)
                     /\ num(x) < 2^Prec * den(x)
             m == RoundHalfEven(num(e), den(e))
             sgn == IF n < 0 THEN 0 - 1 ELSE 1
         IN  IF e >= 0 THEN Frac(sgn * m * 2^e, 1) ELSE Frac(sgn * m, 2^(0 - e))

\* float(i) of an int.
FromInt(i) == Round(i, 1)

\* The largest finite float (sys.float_info.max).
FloatMax == <<(2^Prec - 1) * 2^FloatExpSpan, 1>>

\* An int operand of / whose nearest float is beyond FloatMax does not
\* convert: OverflowError.
IntTooLarge(i) == Abs(FromInt(i)[1]) > FloatMax[1]

\* x / y, y # 0.
FDiv(x, y) ==
    LET n == x[1] * y[2]
        d == x[2] * y[1]
    IN  IF d < 0 THEN Round(0 - n, 0 - d) ELSE Round(n, d)

\* x - y
FSub(x, y) == Round(x[1] * y[2] - y[1] * x[2], x[2] * y[2])

\* x * y
FMul(x, y) == Round(x[1] * y[1], x[2] * y[2])

\* abs(x)
FAbs(x) == <<Abs(x[1]), x[2]>>

\* x <= y and x > y
FLe(x, y) == x[1] * y[2] <= y[1] * x[2]
FGt(x, y) == x[1] * y[2] > y[1] * x[2]

\* max(x, y) of Python: the first argument unless the second is greater.
FMax(x, y) == IF FGt(y, x) THEN y ELSE x

\* v in k decimal digits, zero-padded.
RECURSIVE PadDigits(_, _)
PadDigits(v, k) == IF k = 0 THEN "" ELSE PadDigits(v \div 10, k - 1) \o ToString(v % 10)

\* The decimal text of scaled / 10^k with k decimals.
Fixed(neg, scaled, k) ==
    (IF neg THEN "-" ELSE "") \o ToString(scaled \div 10^k) \o "." \o PadDigits(scaled % 10^k, k)

\* format(x, ".3f"): the exact value rounded to three decimals.
Fixed3(x) == Fixed(x[1] < 0, RoundHalfEven(Abs(x[1]) * 1000, x[2]), 3)

\* repr(x) of a float whose decimal expansion is short: the shortest text
\* that reads back as x, with at least one decimal.
FloatRepr(x) ==
    LET a == Abs(x[1])
        k == CHOOSE j \in 1 .. 6 :
                /\ (a * 10^j) % x[2] = 0
                /\ \A i \in 1 .. (j - 1) : (a * 10^i) % x[2] # 0
    IN  Fixed(x[1] < 0, (a * 10^k) \div x[2], k)

(***************************************************************************)
(* check_sampling_consistency                                              *)
(***************************************************************************)
Zero == <<0, 1>>
One == <<1, 1>>

\* The float arguments tried: fractions with small power-of-two denominators.
FpsVals == {Frac(0 - 1, 1), Zero, Frac(1, 2), One, Frac(3, 1), Frac(5, 1)}
DurationVals == {Frac(0 - 1, 2), Zero, Frac(1, 4), Frac(5, 16), Frac(11, 32), Frac(3, 8),
                 Frac(1, 2), Frac(5, 8), One, Frac(5, 4), Frac(3, 2), Frac(2, 1), Frac(3, 1)}
ToleranceVals == {Frac(0 - 1, 8), Zero, Frac(1, 32), Frac(1, 8), Frac(1, 4), Frac(1, 2)}

SamplingMsg(frames, fps, duration_sec) ==
    "Inconsistent timing: frames=" \o IntStr(frames) \o ", fps=" \o FloatRepr(fps)
        \o ", duration=" \o Fixed3(duration_sec) \o "s"

\* Variant of FpsRejected: fps < 0.
FpsRejectedStrict(fps) == ~FLe(Zero, fps)

\* Line 56: if fps <= 0
FpsRejected(fps) == FLe(fps, Zero)

\* Variant of SamplingOk: tolerance * duration_sec, without max(1.0, ...).
SamplingOkNoFloor(expected, duration_sec, tolerance) ==
    FLe(FAbs(FSub(expected, duration_sec)), FMul(tolerance, duration_sec))

\* Line 59: abs(expected - duration_sec) <= (tolerance * max(1.0, duration_sec))
SamplingOk(expected, duration_sec, tolerance) ==
    FLe(FAbs(FSub(expected, duration_sec)), FMul(tolerance, FMax(One, duration_sec)))

\* A frame count no float can hold (as 10**400 is for a double).
HugeFrames == 2^(Prec + FloatExpSpan + 1)
FrameVals == (0 .. MaxFrames) \cup {HugeFrames}

\* What the call produces; frames / fps raises OverflowError when frames does
\* not convert to a float and ZeroDivisionError when fps is zero.
check_sampling_consistency(frames, fps, duration_sec, tolerance) ==
    IF FpsRejected(fps)
    THEN Returned(<<FALSE, "fps must be positive">>)
    ELSE IF IntTooLarge(frames)
    THEN Raise("OverflowError", "int too large to convert to float")
    ELSE IF fps[1] = 0
    THEN Raise("ZeroDivisionError", "float division by zero")
    ELSE LET expected == FDiv(FromInt(frames), fps)
             ok == SamplingOk(expected, duration_sec, tolerance)
         IN  Returned(<<ok, IF ok THEN "OK" ELSE SamplingMsg(frames, fps, duration_sec)>>)

CheckSamplingConsistency ==
    /\ fn = "idle"
    /\ \E frames \in FrameVals, fps \in FpsVals, duration_sec \in DurationVals,
          tolerance \in ToleranceVals :
        /\ fn' = "check_sampling_consistency"
        /\ args' = [frames |-> frames, fps |-> fps, duration_sec |-> duration_sec,
                    tolerance |-> tolerance]
        /\ ret' = check_sampling_consistency(frames, fps, duration_sec, tolerance)
    /\ branch' = "none"
    /\ Z3_AVAILABLE' = FlagAfterCall(Z3_AVAILABLE)
    /\ UNCHANGED <<numpy2, prev, threads>>

(***************************************************************************)
(* Collections: iterables are sequences; set() and Counter() are built     *)
(* from them as Python builds them.                                        *)
(***************************************************************************)
\* All sequences over S of length at most n.
SeqsUpTo(S, n) == UNION {[1 .. k -> S] : k \in 0 .. n}

\* set(xs)
ToSet(xs) == {xs[k] : k \in 1 .. Len(xs)}

Min(S) == CHOOSE x \in S : \A y \in S : x <= y

\* The elements of a set of small non-negative ints in the order CPython
\* iterates them (by hash slot, which is the value itself).
RECURSIVE SetOrder(_)
SetOrder(S) == IF S = {} THEN <<>> ELSE <<Min(S)>> \o SetOrder(S \ {Min(S)})

\* ", ".join of a sequence of strings.
RECURSIVE Join(_)
Join(ss) ==
    IF Len(ss) = 0 THEN ""
    ELSE IF Len(ss) = 1 THEN ss[1]
    ELSE ss[1] \o ", " \o Join(Tail(ss))

\* repr() of a set of ints.
SetStr(S) ==
    IF S = {} THEN "set()"
    ELSE "{" \o Join([k \in 1 .. Cardinality(S) |-> IntStr(SetOrder(S)[k])]) \o "}"

(***************************************************************************)
(* assert_disjoint_splits                                                  *)
(***************************************************************************)
SubjectIds == 1 .. 3
IdLists == SeqsUpTo(SubjectIds, MaxLen)

\* Variant of Overlap: (v & u) left out.
OverlapMissingPair(t, v, u) == (t \cap v) \cup (t \cap u)

\* Line 65: overlap = (t & v) | (t & u) | (v & u)
Overlap(t, v, u) == (t \cap v) \cup (t \cap u) \cup (v \cap u)

assert_disjoint_splits(train_ids, val_ids, test_ids) ==
    LET t == ToSet(train_ids)
        v == ToSet(val_ids)
        u == ToSet(test_ids)
        overlap == Overlap(t, v, u)
    IN  IF Cardinality(overlap) = 0
        THEN Returned("None")
        ELSE Raised("Subject overlap across splits: " \o SetStr(overlap))

AssertDisjointSplits ==
    /\ fn = "idle"
    /\ \E train_ids \in IdLists, val_ids \in IdLists, test_ids \in IdLists :
        /\ fn' = "assert_disjoint_splits"
        /\ args' = [train_ids |-> train_ids, val_ids |-> val_ids, test_ids |-> test_ids]
        /\ ret' = assert_disjoint_splits(train_ids, val_ids, test_ids)
    /\ branch' = "none"
    /\ Z3_AVAILABLE' = FlagAfterCall(Z3_AVAILABLE)
    /\ UNCHANGED <<numpy2, prev, threads>>

(***************************************************************************)
(* min_class_presence                                                      *)
(***************************************************************************)
ClassLabels == {0, 1}
LabelLists == SeqsUpTo(ClassLabels, MaxLen)
SplitNames == {"train", "val", "test"}

\* A dict as the sequence of its items <<key, value>> in insertion order.
LabelDicts ==
    {d \in SeqsUpTo(SplitNames \X LabelLists, MaxSplits) :
        \A i, j \in 1 .. Len(d) : i # j => d[i][1] # d[j][1]}

\* Variant of Counter: every known class counted, the absent ones with 0.
CounterWithAbsent(labels) ==
    [k \in 1 .. Cardinality(ClassLabels) |->
        <<SetOrder(ClassLabels)[k],
          Cardinality({i \in 1 .. Len(labels) : labels[i] = SetOrder(ClassLabels)[k]})>>]

\* Counter(labels): <<label, count>> items in order of first occurrence.
RECURSIVE Counter(_)
Counter(labels) ==
    IF Len(labels) = 0 THEN <<>>
    ELSE LET c == Counter(SubSeq(labels, 1, Len(labels) - 1))
             x == labels[Len(labels)]
         IN  IF \E k \in 1 .. Len(c) : c[k][1] = x
             THEN [k \in 1 .. Len(c) |-> IF c[k][1] = x THEN <<x, c[k][2] + 1>> ELSE c[k]]
             ELSE Append(c, <<x, 1>>)

\* Variant of IsTooSmall: n <= min_count.
IsTooSmallInclusive(n, min_count) == n <= min_count

\* Line 74: the test of the dict comprehension.
IsTooSmall(n, min_count) == n < min_count

\* {c: n for c, n in counts.items() if n < min_count}
TooSmall(counts, min_count) == SelectSeq(counts, LAMBDA item : IsTooSmall(item[2], min_count))

\* repr() of a dict of ints.
DictStr(items) ==
    "{" \o Join([k \in 1 .. Len(items) |-> IntStr(items[k][1]) \o ": " \o IntStr(items[k][2])])
        \o "}"

\* The for loop from its i-th item on: the first split with a class too
\* small raises, and the splits after it are not looked at.
RECURSIVE MinClassLoop(_, _, _)
MinClassLoop(labels_by_split, min_count, i) ==
    IF i > Len(labels_by_split) THEN Returned("None")
    ELSE LET split == labels_by_split[i][1]
             counts == Counter(labels_by_split[i][2])
             too_small == TooSmall(counts, min_count)
         IN  IF Len(too_small) # 0
             THEN Raised(split \o " has underrepresented classes: " \o DictStr(too_small))
             ELSE MinClassLoop(labels_by_split, min_count, i + 1)

min_class_presence(labels_by_split, min_count) == MinClassLoop(labels_by_split, min_count, 1)

MinClassPresence ==
    /\ fn = "idle"
    /\ \E labels_by_split \in LabelDicts, min_count \in 0 .. MaxMinCount :
        /\ fn' = "min_class_presence"
        /\ args' = [labels_by_split |-> labels_by_split, min_count |-> min_count]
        /\ ret' = min_class_presence(labels_by_split, min_count)
    /\ branch' = "none"
    /\ Z3_AVAILABLE' = FlagAfterCall(Z3_AVAILABLE)
    /\ UNCHANGED <<numpy2, prev, threads>>

(***************************************************************************)
(* assert_label_domain                                                     *)
(***************************************************************************)
LabelVals == {0, 1, 2}
ObservedLists == SeqsUpTo(LabelVals, MaxLen)
\* The allowed tuples tried; <<0, 1>> is the default.
AllowedTuples == {<<0, 1>>, <<0>>, <<>>, <<1, 1>>, <<2, 0>>, <<0, 1, 2>>}

\* pd.Series(list(y)).unique(): the distinct values in order of first appearance.
RECURSIVE Unique(_)
Unique(xs) ==
    IF Len(xs) = 0 THEN <<>>
    ELSE LET u == Unique(SubSeq(xs, 1, Len(xs) - 1))
             x == xs[Len(xs)]
         IN  IF \E k \in 1 .. Len(u) : u[k] = x THEN u ELSE Append(u, x)

\* Variant of BadLabels: the difference taken the other way round.
BadLabelsReversed(uniq, allowed) == ToSet(allowed) \ ToSet(uniq)

\* Line 79: bad = set(...unique()) - set(allowed)
BadLabels(uniq, allowed) == ToSet(uniq) \ ToSet(allowed)

\* repr() of an element of the unique() array, a numpy integer: the bare
\* number before numpy 2, np.int64(..) from numpy 2 on.
NumpyIntStr(np2, i) == IF np2 THEN "np.int64(" \o IntStr(i) \o ")" ELSE IntStr(i)

\* repr() of a non-empty set of numpy integers.
NumpySetStr(np2, S) ==
    "{" \o Join([k \in 1 .. Cardinality(S) |-> NumpyIntStr(np2, SetOrder(S)[k])]) \o "}"

\* The call in a process whose numpy is (np2), or is not, numpy 2.
assert_label_domain(np2, y, allowed) ==
    LET bad == BadLabels(Unique(y), allowed)
    IN  IF bad = {}
        THEN Returned("None")
        ELSE Raised("Unexpected labels detected: " \o NumpySetStr(np2, bad))

AssertLabelDomain ==
    /\ fn = "idle"
    /\ \E y \in ObservedLists, allowed \in AllowedTuples :
        /\ fn' = "assert_label_domain"
        /\ args' = [y |-> y, allowed |-> allowed]
        /\ ret' = assert_label_domain(numpy2, y, allowed)
    /\ branch' = "none"
    /\ Z3_AVAILABLE' = FlagAfterCall(Z3_AVAILABLE)
    /\ UNCHANGED <<numpy2, prev, threads>>

(***************************************************************************)
(* The caller takes the result; nothing of the call is left behind.        *)
(***************************************************************************)
Consume ==
    /\ fn # "idle"
    /\ fn' = "idle"
    /\ args' = <<>>
    /\ ret' = <<>>
    /\ branch' = "none"
    /\ UNCHANGED <<Z3_AVAILABLE, numpy2, prev, threads>>

\* No call noted yet.
NoCall == [fn |-> "idle"]

\* The threads that call the checks.
Threads == {1, 2}

\* A thread that is in no call.
IdleThread == [pc |-> "idle"]

\* After import: the probe of lines 19-23 has set the flag either way.
Init ==
    /\ Z3_AVAILABLE \in BOOLEAN
    /\ numpy2 \in BOOLEAN
    /\ fn = "idle"
    /\ args = <<>>
    /\ ret = <<>>
    /\ branch = "none"
    /\ prev = NoCall
    /\ threads = [t \in Threads |-> IdleThread]

Next ==
    \/ CheckEventTriplet
    \/ CheckWindowBounds
    \/ CheckSamplingConsistency
    \/ AssertDisjointSplits
    \/ MinClassPresence
    \/ AssertLabelDomain
    \/ Consume

Spec == Init /\ [][Next]_vars

(***************************************************************************)
(* Properties                                                              *)
(***************************************************************************)
\* The (ok, message) pair a check_ function returned.
RetOk == ret.value[1]
RetMsg == ret.value[2]

\* C1: check_event_triplet returns ok = true exactly when
\* 0 <= onset < apex < offset <= n_frames - 1, under either strategy; equal
\* onset and apex, equal apex and offset, and offset = n_frames are rejected.
C1_TripletIff ==
    fn = "check_event_triplet" =>
        /\ RetOk <=> (0 <= args.onset /\ args.onset < args.apex
                        /\ args.apex < args.offset /\ args.offset <= args.n_frames - 1)
        /\ args.onset = args.apex => ~RetOk
        /\ args.apex = args.offset => ~RetOk
        /\ args.offset = args.n_frames => ~RetOk

\* An ordered triplet whose offset is n_frames, rejected by the solver-backed branch.
C1_Witness ==
    /\ fn = "check_event_triplet"
    /\ Z3_AVAILABLE
    /\ args.onset = 0 /\ args.apex = 1 /\ args.offset = 2 /\ args.n_frames = 2
    /\ ~RetOk

\* C2: check_window_bounds returns ok = true exactly when start >= 0,
\* length >= 0 and start + length <= n_frames, under either strategy; a
\* negative start or length is rejected even when the sum fits, and
\* (0, 0, 0) is accepted.
C2_WindowIff ==
    fn = "check_window_bounds" =>
        /\ RetOk <=> (args.start >= 0 /\ args.length >= 0
                        /\ args.start + args.length <= args.n_frames)
        /\ (args.start < 0 \/ args.length < 0) => ~RetOk
        /\ (args.start = 0 /\ args.length = 0 /\ args.n_frames = 0) => RetOk

\* A negative length whose sum with start fits, rejected by the solver-backed branch.
C2_Witness ==
    /\ fn = "check_window_bounds"
    /\ Z3_AVAILABLE
    /\ args.length < 0
    /\ args.start >= 0
    /\ args.start + args.length <= args.n_frames
    /\ ~RetOk

\* C3: the verdict a call returned under the active strategy is the verdict
\* the other strategy gives for the same arguments, in check_event_triplet
\* and in check_window_bounds.
C3_SameVerdict ==
    /\ fn = "check_event_triplet" =>
        RetOk = check_event_triplet(~Z3_AVAILABLE, args.onset, args.apex,
                                    args.offset, args.n_frames)[1]
    /\ fn = "check_window_bounds" =>
        RetOk = check_window_bounds(~Z3_AVAILABLE, args.start, args.length,
                                    args.n_frames)[1]

\* A triplet the solver-backed branch found unsatisfiable.
C3_Witness ==
    /\ fn = "check_event_triplet"
    /\ Z3_AVAILABLE
    /\ args.onset = args.apex
    /\ ~RetOk

\* C4: the (ok, message) pair a call returned under the active strategy is
\* the pair the other strategy returns for the same arguments, message text
\* included.
C4_SamePair ==
    /\ fn = "check_event_triplet" =>
        ret.value = check_event_triplet(~Z3_AVAILABLE, args.onset, args.apex,
                                        args.offset, args.n_frames)
    /\ fn = "check_window_bounds" =>
        ret.value = check_window_bounds(~Z3_AVAILABLE, args.start, args.length,
                                        args.n_frames)

\* C6: a failing check_event_triplet message is
\* Violation: (onset=.., apex=.., offset=.., n=..) with the four arguments,
\* under whichever strategy is active; a failing check_window_bounds message
\* carries start, length and n_frames.
C6_ViolationText ==
    /\ (fn = "check_event_triplet" /\ ~RetOk) =>
        RetMsg = "Violation: (onset=" \o ToString(args.onset)
                    \o ", apex=" \o ToString(args.apex)
                    \o ", offset=" \o ToString(args.offset)
                    \o ", n=" \o ToString(args.n_frames) \o ")"
    /\ (fn = "check_window_bounds" /\ ~RetOk) =>
        RetMsg = "Window out of bounds: start=" \o ToString(args.start)
                    \o ", length=" \o ToString(args.length)
                    \o ", n=" \o ToString(args.n_frames)

\* C5: for check_event_triplet, check_window_bounds and
\* check_sampling_consistency, under either strategy, the returned message
\* of every call that returns is "OK" exactly when the returned ok is true.
C5_OkMessage ==
    (/\ fn \in {"check_event_triplet", "check_window_bounds", "check_sampling_consistency"}
     /\ ~ret.raised) =>
        ((RetMsg = "OK") <=> RetOk)

\* A sampling call that failed on timing, with its message.
C5_Witness ==
    /\ fn = "check_sampling_consistency"
    /\ ~ret.raised
    /\ ~RetOk
    /\ RetMsg = "Inconsistent timing: frames=3, fps=0.5, duration=0.312s"

\* C7: with fps <= 0 check_sampling_consistency returns
\* (false, "fps must be positive") whatever frames, duration_sec and tolerance
\* are, and does not raise (the division is not reached); and it returns that
\* message only when fps <= 0.
C7_FpsPrecondition ==
    fn = "check_sampling_consistency" =>
        /\ args.fps[1] <= 0 => ret = [raised |-> FALSE, value |-> <<FALSE, "fps must be positive">>]
        /\ (~ret.raised /\ RetMsg = "fps must be positive") => args.fps[1] <= 0

\* fps = 0 with a frame count that no float can hold: the fixed message,
\* the division not attempted.
C7_Witness ==
    /\ fn = "check_sampling_consistency"
    /\ args.fps = <<0, 1>>
    /\ args.frames = HugeFrames
    /\ args.duration_sec = <<0, 1>>
    /\ ~ret.raised
    /\ RetMsg = "fps must be positive"

\* C8: for fps > 0, a call that returns has ok true exactly when
\* |frames / fps - duration_sec| <= tolerance * max(1, duration_sec), the
\* quotient, difference and product being the floating-point ones; the test
\* is the same for a mismatch of either sign; and for duration_sec < 1 the
\* mismatch allowed is tolerance itself.
C8_SamplingIff ==
    (fn = "check_sampling_consistency" /\ args.fps[1] > 0 /\ ~ret.raised) =>
        LET expected == FDiv(FromInt(args.frames), args.fps)
            d == args.duration_sec
            over == FSub(expected, d)
            under == FSub(d, expected)
            floor == IF FGt(d, One) THEN d ELSE One
            bound == FMul(args.tolerance, floor)
        IN  /\ RetOk <=> FLe(FAbs(over), bound)
            /\ RetOk <=> (FLe(over, bound) /\ FLe(under, bound))
            /\ FGt(One, d) => (RetOk <=> FLe(FAbs(over), args.tolerance))

\* A duration below 1 whose mismatch is within tolerance but beyond
\* tolerance * duration_sec, accepted; the frame count runs short of the duration.
C8_Witness ==
    /\ fn = "check_sampling_consistency"
    /\ args.fps[1] > 0
    /\ ~ret.raised
    /\ RetOk
    /\ FGt(One, args.duration_sec)
    /\ FGt(args.duration_sec, FDiv(FromInt(args.frames), args.fps))
    /\ FGt(FSub(args.duration_sec, FDiv(FromInt(args.frames), args.fps)),
           FMul(args.tolerance, args.duration_sec))

\* The splits of an assert_disjoint_splits call that contain identifier i.
SplitsHolding(i) ==
    {k \in {"train_ids", "val_ids", "test_ids"} : \E j \in 1 .. Len(args[k]) : args[k][j] = i}

\* C9: assert_disjoint_splits raises exactly when some identifier is in at
\* least two of the three splits, the failure reports exactly the set of
\* those identifiers, and pairwise disjoint splits return without raising.
C9_DisjointSplits ==
    fn = "assert_disjoint_splits" =>
        LET shared == {i \in SubjectIds : Cardinality(SplitsHolding(i)) >= 2}
        IN  /\ ret.raised <=> shared # {}
            /\ ret.raised =>
                /\ ret.error = "AssertionError"
                /\ ret.msg = "Subject overlap across splits: " \o SetStr(shared)
            /\ shared = {} => ret = [raised |-> FALSE, value |-> "None"]

\* One identifier in val and test only, one in all three splits, one in train alone.
C9_Witness ==
    /\ fn = "assert_disjoint_splits"
    /\ SplitsHolding(1) = {"train_ids"}
    /\ SplitsHolding(2) = {"val_ids", "test_ids"}
    /\ SplitsHolding(3) = {"train_ids", "val_ids", "test_ids"}
    /\ ret.raised
    /\ ret.msg = "Subject overlap across splits: {2, 3}"

\* How often label c occurs in a list of labels.
Occurrences(labels, c) == Cardinality({k \in 1 .. Len(labels) : labels[k] = c})

\* C10: min_class_presence raises exactly when some split holds a label
\* that occurs in it fewer than min_count times; a count equal to min_count
\* passes.
C10_MinClassIff ==
    fn = "min_class_presence" =>
        LET d == args.labels_by_split
            short(i) == \E c \in ToSet(d[i][2]) : Occurrences(d[i][2], c) < args.min_count
            exact(i) == \A c \in ToSet(d[i][2]) : Occurrences(d[i][2], c) = args.min_count
        IN  /\ ret.raised <=> \E i \in 1 .. Len(d) : short(i)
            /\ ret.raised => ret.error = "AssertionError"
            /\ (\A i \in 1 .. Len(d) : exact(i)) => ret = [raised |-> FALSE, value |-> "None"]

\* A first split whose only class occurs exactly min_count times, passed
\* over, and a second split with a class below min_count, which raises.
C10_Witness ==
    /\ fn = "min_class_presence"
    /\ args.min_count = 2
    /\ Len(args.labels_by_split) = 2
    /\ args.labels_by_split[1] = <<"train", <<0, 0>>>>
    /\ args.labels_by_split[2] = <<"val", <<1, 0>>>>
    /\ ret.raised
    /\ ret.msg = "val has underrepresented classes: {1: 1, 0: 1}"

\* Whether text sub occurs in text s.
Contains(s, sub) ==
    \E i \in 1 .. (Len(s) - Len(sub) + 1) : SubSeq(s, i, i + Len(sub) - 1) = sub

\* C11: when min_class_presence raises, the one failure names every split
\* that holds a class below min_count, each with its class-to-count mapping.
C11_AllSplitsReported ==
    (fn = "min_class_presence" /\ ret.raised) =>
        \A i \in 1 .. Len(args.labels_by_split) :
            LET split == args.labels_by_split[i][1]
                labels == args.labels_by_split[i][2]
                short == SelectSeq(Counter(labels), LAMBDA item : item[2] < args.min_count)
            IN  Len(short) # 0 =>
                    Contains(ret.msg, split \o " has underrepresented classes: " \o DictStr(short))

\* C12: assert_label_domain raises exactly when some element of y is not in
\* allowed, the failure reports exactly the set of the elements of y that
\* are not in allowed (each once), and a y whose labels are all allowed,
\* the empty y included, returns without raising.
C12_LabelDomain ==
    fn = "assert_label_domain" =>
        LET unexpected == {v \in LabelVals :
                              /\ \E k \in 1 .. Len(args.y) : args.y[k] = v
                              /\ \A j \in 1 .. Len(args.allowed) : args.allowed[j] # v}
        IN  /\ ret.raised <=> unexpected # {}
            /\ ret.raised =>
                /\ ret.error = "AssertionError"
                /\ \E np2 \in BOOLEAN :
                      ret.msg = "Unexpected labels detected: " \o NumpySetStr(np2, unexpected)
            /\ unexpected = {} => ret = [raised |-> FALSE, value |-> "None"]

\* The label 2 seen twice with the default allowed tuple: reported once.
C12_Witness ==
    /\ fn = "assert_label_domain"
    /\ args.y = <<2, 2>>
    /\ args.allowed = <<0, 1>>
    /\ ret.raised
    /\ ret.msg = "Unexpected labels detected: {2}"

\* C13: check_event_triplet, check_window_bounds and
\* check_sampling_consistency never raise and always return an (ok, message)
\* pair; assert_disjoint_splits, min_class_presence and assert_label_domain
\* either return None or raise one AssertionError, never a boolean.
C13_ChannelsApart ==
    /\ fn \in {"check_event_triplet", "check_window_bounds", "check_sampling_consistency"} =>
        /\ ~ret.raised
        /\ Len(ret.value) = 2
        /\ ret.value[1] \in BOOLEAN
    /\ fn \in {"assert_disjoint_splits", "min_class_presence", "assert_label_domain"} =>
        \/ ret = [raised |-> FALSE, value |-> "None"]
        \/ ret.raised /\ ret.error = "AssertionError"

\* C14: the strategy flag keeps the value the import probe gave it through
\* every call (no call sets it again), and no call takes the solver-backed
\* branch when the probe failed.
C14_StrategyFixed ==
    [][/\ Z3_AVAILABLE' = Z3_AVAILABLE
       /\ branch' = "solver" => Z3_AVAILABLE
       /\ branch' = "direct" => ~Z3_AVAILABLE]_vars

\* After a failed probe, a call that went through the pure-Python branch.
C14_Witness ==
    /\ ~Z3_AVAILABLE
    /\ fn = "check_window_bounds"
    /\ branch = "direct"
    /\ ~ret.raised
    /\ RetOk

(***************************************************************************)
(* Repeated calls: a caller notes one call and its result, makes other     *)
(* calls, and makes the noted call again.                                  *)
(***************************************************************************)
\* Lines 26-80: the function f called with the arguments a, in a process whose
\* flag is z3 and whose numpy is (np2), or is not, numpy 2.
Call(z3, np2, f, a) ==
    CASE f = "check_event_triplet" ->
            Returned(check_event_triplet(z3, a.onset, a.apex, a.offset, a.n_frames))
      [] f = "check_window_bounds" ->
            Returned(check_window_bounds(z3, a.start, a.length, a.n_frames))
      [] f = "check_sampling_consistency" ->
            check_sampling_consistency(a.frames, a.fps, a.duration_sec, a.tolerance)
      [] f = "assert_disjoint_splits" ->
            assert_disjoint_splits(a.train_ids, a.val_ids, a.test_ids)
      [] f = "min_class_presence" ->
            min_class_presence(a.labels_by_split, a.min_count)
      [] f = "assert_label_domain" ->
            assert_label_domain(np2, a.y, a.allowed)

\* The branch a call of f takes: only the two index checks have strategies.
BranchOf(z3, f) ==
    IF f \in {"check_event_triplet", "check_window_bounds"} THEN StrategyOf(z3) ELSE "none"

\* The calls made between a call and its repeat: one of each function, failing
\* ones and passing ones.
BetweenCalls ==
    { [fn |-> "check_event_triplet",
       args |-> [onset |-> 1, apex |-> 0, offset |-> 0, n_frames |-> 1]],
      [fn |-> "check_window_bounds",
       args |-> [start |-> 0, length |-> 1, n_frames |-> 1]],
      [fn |-> "check_sampling_consistency",
       args |-> [frames |-> 1, fps |-> One, duration_sec |-> One, tolerance |-> Zero]],
      [fn |-> "assert_disjoint_splits",
       args |-> [train_ids |-> <<1>>, val_ids |-> <<1>>, test_ids |-> <<>>]],
      [fn |-> "min_class_presence",
       args |-> [labels_by_split |-> << <<"train", <<0>>>> >>, min_count |-> 2]],
      [fn |-> "assert_label_domain",
       args |-> [y |-> <<2>>, allowed |-> <<0, 1>>]] }

\* A first call, while the caller has noted none.
First ==
    /\ prev = NoCall
    /\ \/ CheckEventTriplet
       \/ CheckWindowBounds
       \/ CheckSamplingConsistency
       \/ AssertDisjointSplits
       \/ MinClassPresence
       \/ AssertLabelDomain

\* The caller takes the result and notes the call with it.
Remember ==
    /\ fn # "idle"
    /\ prev = NoCall
    /\ prev' = [fn |-> fn, args |-> args, ret |-> ret, between |-> FALSE]
    /\ fn' = "idle"
    /\ args' = <<>>
    /\ ret' = <<>>
    /\ branch' = "none"
    /\ UNCHANGED <<Z3_AVAILABLE, numpy2, threads>>

\* Another call after the noted one.
Between ==
    /\ fn = "idle"
    /\ prev # NoCall
    /\ \E c \in BetweenCalls :
        /\ fn' = c.fn
        /\ args' = c.args
        /\ ret' = Call(Z3_AVAILABLE, numpy2, c.fn, c.args)
        /\ branch' = BranchOf(Z3_AVAILABLE, c.fn)
    /\ prev' = [prev EXCEPT !.between = TRUE]
    /\ Z3_AVAILABLE' = FlagAfterCall(Z3_AVAILABLE)
    /\ UNCHANGED <<numpy2, threads>>

\* The noted call made again, with the same arguments.
Recall ==
    /\ fn = "idle"
    /\ prev # NoCall
    /\ fn' = prev.fn
    /\ args' = prev.args
    /\ ret' = Call(Z3_AVAILABLE, numpy2, prev.fn, prev.args)
    /\ branch' = BranchOf(Z3_AVAILABLE, prev.fn)
    /\ Z3_AVAILABLE' = FlagAfterCall(Z3_AVAILABLE)
    /\ UNCHANGED <<numpy2, prev, threads>>

NextRepeat ==
    \/ First
    \/ Remember
    \/ Between
    \/ Recall
    \/ Consume

SpecRepeat == Init /\ [][NextRepeat]_vars

\* C15: every check is idempotent: a call with the function and arguments of
\* an earlier call, whatever calls were made in between, gives the result
\* the earlier call gave (the same returned value or the same raised failure).
C15_Idempotent ==
    [][(/\ fn = "idle"
        /\ prev # NoCall
        /\ fn' = prev.fn
        /\ args' = prev.args) => ret' = prev.ret]_vars

\* A failing triplet check made again after other calls, under the solver
\* strategy, and its result the one noted.
C15_Witness ==
    /\ Z3_AVAILABLE
    /\ prev # NoCall
    /\ prev.between
    /\ fn = "check_event_triplet"
    /\ fn = prev.fn
    /\ args = prev.args
    /\ ret = prev.ret
    /\ ~RetOk

(***************************************************************************)
(* Concurrent calls.  A solver-backed call makes its z3 calls one after    *)
(* another: Int(...) and Solver() are given no context, so z3 builds every *)
(* variable, constraint and solver of every thread in its one default      *)
(* context; z3 is entered through ctypes, which releases the interpreter   *)
(* lock for the duration of each library call, and z3 lets a context be    *)
(* used by one thread at a time only.                                      *)
(***************************************************************************)
\* Lines 31-35 and 45-49: the statements of a solver-backed call that enter
\* z3: the Int(...) declarations, Solver(), s.add(...), s.check().
SolverLines(f) ==
    IF f = "check_event_triplet" THEN <<31, 32, 33, 35>> ELSE <<45, 46, 47, 49>>

\* Lines 35-37 and 49-51: what the call returns once s.check() has answered.
SolverResult(f, a, sat) ==
    IF sat
    THEN <<TRUE, "OK">>
    ELSE IF f = "check_event_triplet"
         THEN <<FALSE, TripletSolverMsg(a.onset, a.apex, a.offset, a.n_frames)>>
         ELSE <<FALSE, WindowMsg(a.start, a.length, a.n_frames)>>

\* What a call can produce after two threads were inside the default context
\* at once: z3's behaviour is then undefined, so s.check() may answer either
\* way, or a z3 call may fail.
RaceOutcomes(f, a) ==
    {Returned(SolverResult(f, a, sat)) : sat \in BOOLEAN} \cup {Raise("Z3Exception", "")}

\* The calls the threads make: the six functions, the two index checks with
\* indices that pass and indices that fail.
ThreadCalls ==
    BetweenCalls \cup
    { [fn |-> "check_event_triplet",
       args |-> [onset |-> 0, apex |-> 1, offset |-> 2, n_frames |-> 3]],
      [fn |-> "check_window_bounds",
       args |-> [start |-> 1, length |-> 1, n_frames |-> 1]] }

\* Thread t enters a check.
TStart(t) ==
    /\ threads[t].pc = "idle"
    /\ \E c \in ThreadCalls :
        threads' = [threads EXCEPT ![t] =
                      [pc |-> IF BranchOf(Z3_AVAILABLE, c.fn) = "solver" THEN "z3" ELSE "python",
                       fn |-> c.fn, args |-> c.args, step |-> 1, raced |-> FALSE,
                       ret |-> <<>>]]
    /\ UNCHANGED <<Z3_AVAILABLE, numpy2, fn, args, ret, branch, prev>>

\* Thread t enters z3 for its next statement; the interpreter lock is released.
\* If another thread is inside z3 too, both are in the default context at once.
TEnter(t) ==
    /\ threads[t].pc = "z3"
    /\ LET busy == {u \in Threads \ {t} : threads[u].pc = "native"}
       IN  threads' = [u \in Threads |->
                         IF u = t
                         THEN [threads[u] EXCEPT !.pc = "native",
                                                 !.raced = @ \/ busy # {}]
                         ELSE IF u \in busy
                         THEN [threads[u] EXCEPT !.raced = TRUE]
                         ELSE threads[u]]
    /\ UNCHANGED <<Z3_AVAILABLE, numpy2, fn, args, ret, branch, prev>>

\* Thread t comes back from z3: on to its next statement, or, after
\* s.check(), to the return.
TLeave(t) ==
    /\ threads[t].pc = "native"
    /\ LET me == threads[t]
       IN  IF me.step < Len(SolverLines(me.fn))
           THEN /\ threads' = [threads EXCEPT ![t] =
                                 [me EXCEPT !.pc = "z3", !.step = @ + 1]]
                /\ UNCHANGED Z3_AVAILABLE
           ELSE /\ \E r \in IF me.raced
                            THEN RaceOutcomes(me.fn, me.args)
                            ELSE {Call(Z3_AVAILABLE, numpy2, me.fn, me.args)} :
                      threads' = [threads EXCEPT ![t] =
                                    [me EXCEPT !.pc = "done", !.ret = r]]
                /\ Z3_AVAILABLE' = FlagAfterCall(Z3_AVAILABLE)
    /\ UNCHANGED <<numpy2, fn, args, ret, branch, prev>>

\* Thread t finishes a call that works on its own arguments and locals only.
TReturn(t) ==
    /\ threads[t].pc = "python"
    /\ LET me == threads[t]
       IN  threads' = [threads EXCEPT ![t] =
                         [me EXCEPT !.pc = "done",
                                    !.ret = Call(Z3_AVAILABLE, numpy2, me.fn, me.args)]]
    /\ Z3_AVAILABLE' = FlagAfterCall(Z3_AVAILABLE)
    /\ UNCHANGED <<numpy2, fn, args, ret, branch, prev>>

\* Thread t's caller takes the result.
TConsume(t) ==
    /\ threads[t].pc = "done"
    /\ threads' = [threads EXCEPT ![t] = IdleThread]
    /\ UNCHANGED <<Z3_AVAILABLE, numpy2, fn, args, ret, branch, prev>>

NextThreads ==
    \/ \E t \in Threads : TStart(t)
    \/ \E t \in Threads : TEnter(t)
    \/ \E t \in Threads : TLeave(t)
    \/ \E t \in Threads : TReturn(t)
    \/ \E t \in Threads : TConsume(t)

SpecThreads == Init /\ [][NextThreads]_vars

C17_OnlyOccurring ==
    fn = "min_class_presence" =>
        LET d == args.labels_by_split
            prefix(i) == d[i][1] \o " has underrepresented classes: "
        IN  /\ ret.raised =>
                /\ \E i \in 1 .. Len(d) :
                      /\ d[i][2] # <<>>
                      /\ Len(ret.msg) > Len(prefix(i))
                      /\ SubSeq(ret.msg, 1, Len(prefix(i))) = prefix(i)
                /\ \A c \in ClassLabels : ~Contains(ret.msg, IntStr(c) \o ": 0")
            /\ (\A i \in 1 .. Len(d) :
                   \A c \in ToSet(d[i][2]) : Occurrences(d[i][2], c) >= args.min_count)
                  => ~ret.raised
            /\ (\A i \in 1 .. Len(d) : d[i][2] = <<>>) => ~ret.raised

\* Class 1 only in the first split and class 0 only in the second, each
\* min_count times: the call passes.
C17_Witness ==
    /\ fn = "min_class_presence"
    /\ args.min_count = 2
    /\ Len(args.labels_by_split) = 2
    /\ args.labels_by_split[1][2] = <<1, 1>>
    /\ args.labels_by_split[2][2] = <<0, 0>>
    /\ ~ret.raised

====
